---------------------------- MODULE Spec2Model ----------------------------
(***************************************************************************)
(* The gather launcher (python/gather/__init__.py, python/gather/__main__.py)*)
(* as a state machine: one invocation of either entry point on a given     *)
(* platform, filesystem and search path, from resolution of the native     *)
(* binary through permission repair to delegation and exit.                *)
(***************************************************************************)
EXTENDS Integers, Sequences, FiniteSets, TLC

VARIABLES
    platform,    \* sys.platform
    entry,       \* which entry point runs: "main" (gather.main) or "__main__" (_run)
    argv1,       \* sys.argv[1:]
    fs,          \* the two candidate files: kind and st_mode of each
    found,       \* what shutil.which(BINARY_NAME) yields on this search path
    pc,          \* position of the launcher process
    selected,    \* candidate location the resolver settled on
    binary,      \* the local `binary` of main / _run
    err,         \* the error that ended the run, if any
    stderr,      \* what was written to the error stream
    exitCode,    \* <<status>> once the process has terminated, <<>> before
    targetArgv,  \* the argv handed to os.execvp / subprocess.call
    childCode,   \* <<code>> once the spawned child has finished, <<>> before
    execCalls,   \* os.execvp calls made
    spawnCalls,  \* subprocess.call calls made
    whichCalls,  \* shutil.which calls made
    hist         \* one record per _ensure_executable call

vars == <<platform, entry, argv1, fs, found, pc, selected, binary, err, stderr,
          exitCode, targetArgv, childCode, execCalls, spawnCalls, whichCalls, hist>>

---------------------------------------------------------------------------
\* Bounds of the model

MaxArgs == 2
MaxApplications == 2

---------------------------------------------------------------------------
\* Values

None == "None"

Platforms == {"win32", "linux"}
Entries == {"main", "__main__"}
Locs == {"bundled", "path"}
Kinds == {"absent", "file", "empty", "dir", "broken_symlink"}
ArgValues == {"--help", "src"}
ExitCodes == {0, 1, 2, 127, 255}

S_IXUSR == \o100
S_IXGRP == \o010
S_IXOTH == \o001
S_IFREG == \o100000
S_IFDIR == \o040000
PermMask == \o7777

RECURSIVE BitAnd(_, _)
BitAnd(a, b) ==
    IF a = 0 \/ b = 0 THEN 0
    ELSE (a % 2) * (b % 2) + 2 * BitAnd(a \div 2, b \div 2)

RECURSIVE BitOr(_, _)
BitOr(a, b) ==
    IF a = 0 THEN b
    ELSE IF b = 0 THEN a
    ELSE (IF a % 2 = 1 \/ b % 2 = 1 THEN 1 ELSE 0) + 2 * BitOr(a \div 2, b \div 2)

RECURSIVE Pow2(_)
Pow2(n) == IF n = 0 THEN 1 ELSE 2 * Pow2(n - 1)

Bit(m, i) == (m \div Pow2(i)) % 2

SeqsUpTo(S, n) == UNION {[1..k -> S] : k \in 0..n}

---------------------------------------------------------------------------
\* Names and paths

BINARY_NAME(p) == IF p = "win32" THEN "gather.exe" ELSE "gather"

RunName(p) == IF p = "win32" THEN "gather.exe" ELSE "gather"

\* Path(__file__).parent / "bin" / BINARY_NAME
BundledPath(p) ==
    IF p = "win32" THEN "C:\\site-packages\\gather\\bin\\gather.exe"
    ELSE "/site-packages/gather/bin/gather"

\* What shutil.which can return: the name joined to a search-path entry,
\* which may be the current directory.
WhichResults(p) ==
    IF p = "win32" THEN {"C:\\Tools\\gather.exe", ".\\gather.exe"}
    ELSE {"/usr/local/bin/gather", "./gather"}

\* str(Path(s)): pathlib drops a leading "." component.
StrOfPath(s) ==
    CASE s = "./gather" -> "gather"
      [] s = ".\\gather.exe" -> "gather.exe"
      [] OTHER -> s

\* Path.exists() follows symlinks: a dangling link does not exist.
PathExistsLexists(f) == f.kind # "absent"
PathExists(f) == f.kind \in {"file", "empty", "dir"}

---------------------------------------------------------------------------
\* Permission normalizer

\* os.chmod: the kernel replaces the permission bits and keeps the file type.
Chmod(mode, req) == (mode - (mode % (PermMask + 1))) + (req % (PermMask + 1))

EnsureOwnerOnly(p, mode, statOk, chmodOk) ==
    IF p = "win32" THEN [raised |-> FALSE, chmod |-> FALSE, before |-> mode, after |-> mode]
    ELSE IF ~statOk THEN [raised |-> TRUE, chmod |-> FALSE, before |-> mode, after |-> mode]
    ELSE IF BitAnd(mode, S_IXUSR) = 0
         THEN IF chmodOk
              THEN [raised |-> FALSE, chmod |-> TRUE, before |-> mode,
                    after |-> Chmod(mode, BitOr(mode, S_IXUSR))]
              ELSE [raised |-> TRUE, chmod |-> TRUE, before |-> mode, after |-> mode]
         ELSE [raised |-> FALSE, chmod |-> FALSE, before |-> mode, after |-> mode]

EnsureAnyMissing(p, mode, statOk, chmodOk) ==
    LET x == BitOr(S_IXUSR, BitOr(S_IXGRP, S_IXOTH)) IN
    IF p = "win32" THEN [raised |-> FALSE, chmod |-> FALSE, before |-> mode, after |-> mode]
    ELSE IF ~statOk THEN [raised |-> TRUE, chmod |-> FALSE, before |-> mode, after |-> mode]
    ELSE IF BitAnd(mode, x) # x
         THEN IF chmodOk
              THEN [raised |-> FALSE, chmod |-> TRUE, before |-> mode,
                    after |-> Chmod(mode, BitOr(mode, x))]
              ELSE [raised |-> TRUE, chmod |-> TRUE, before |-> mode, after |-> mode]
         ELSE [raised |-> FALSE, chmod |-> FALSE, before |-> mode, after |-> mode]

\* _ensure_executable(path) on a file of the given st_mode. statOk and chmodOk
\* say whether path.stat() and path.chmod() succeed; `chmod` records that
\* path.chmod() was called, `raised` that the call ended in an OSError.
EnsureExecutable(p, mode, statOk, chmodOk) ==
    IF p = "win32" THEN [raised |-> FALSE, chmod |-> FALSE, before |-> mode, after |-> mode]
    ELSE IF ~statOk THEN [raised |-> TRUE, chmod |-> FALSE, before |-> mode, after |-> mode]
    ELSE IF BitAnd(mode, S_IXUSR) = 0
         THEN IF chmodOk
              THEN [raised |-> FALSE, chmod |-> TRUE, before |-> mode,
                    after |-> Chmod(mode, BitOr(BitOr(BitOr(mode, S_IXUSR), S_IXGRP), S_IXOTH))]
              ELSE [raised |-> TRUE, chmod |-> TRUE, before |-> mode, after |-> mode]
         ELSE [raised |-> FALSE, chmod |-> FALSE, before |-> mode, after |-> mode]

---------------------------------------------------------------------------
\* Resolver

CandidatePathFirst(f, w) ==
    IF w # None THEN "path"
    ELSE IF PathExists(f["bundled"]) THEN "bundled"
    ELSE "none"

\* The candidate get_binary_path settles on: the bundled file if it exists,
\* else what shutil.which found, else nothing.
Candidate(f, w) ==
    IF PathExists(f["bundled"]) THEN "bundled"
    ELSE IF w # None THEN "path"
    ELSE "none"

CandidatePath(p, loc, w) == IF loc = "bundled" THEN BundledPath(p) ELSE StrOfPath(w)

FileNotFoundMessageFixed(p) ==
    <<"FileNotFoundError: Could not find the '", "gather", "' binary. ",
      "Reinstall the package: pip install gather">>

\* The message of the FileNotFoundError, as the traceback prints it.
FileNotFoundMessage(p) ==
    <<"FileNotFoundError: Could not find the '", BINARY_NAME(p), "' binary. ",
      "Reinstall the package: pip install gather">>

RunNotFoundMessage(p) ==
    <<"Error: could not find '", RunName(p), "' on PATH.",
      "Reinstall the package: uv tool install gather">>

GetBinaryPathSwallow(p, f, w, statOk, chmodOk) ==
    LET loc == Candidate(f, w) IN
    IF loc = "none"
    THEN [status |-> "FileNotFoundError", loc |-> loc, path |-> None,
          ens |-> <<>>, which |-> 1]
    ELSE LET e == EnsureExecutable(p, f[loc].mode, statOk, chmodOk) IN
         [status |-> "ok", loc |-> loc, path |-> CandidatePath(p, loc, w),
          ens |-> <<e>>, which |-> IF loc = "bundled" THEN 0 ELSE 1]

\* get_binary_path(): the outcome (a path, or the exception raised), the
\* _ensure_executable call made and the number of shutil.which calls.
GetBinaryPath(p, f, w, statOk, chmodOk) ==
    LET loc == Candidate(f, w) IN
    IF loc = "none"
    THEN [status |-> "FileNotFoundError", loc |-> loc, path |-> None,
          ens |-> <<>>, which |-> 1]
    ELSE LET e == EnsureExecutable(p, f[loc].mode, statOk, chmodOk) IN
         [status |-> IF e.raised THEN "OSError" ELSE "ok",
          loc |-> loc,
          path |-> IF e.raised THEN None ELSE CandidatePath(p, loc, w),
          ens |-> <<e>>,
          which |-> IF loc = "bundled" THEN 0 ELSE 1]

---------------------------------------------------------------------------
\* Delegator

RECURSIVE Dedup(_)
Dedup(s) ==
    IF s = <<>> THEN <<>>
    ELSE LET front == Dedup(SubSeq(s, 1, Len(s) - 1)) IN
         IF \E i \in 1..(Len(s) - 1) : s[i] = s[Len(s)] THEN front
         ELSE Append(front, s[Len(s)])

ArgvDedup(b, args) == <<b>> \o Dedup(args)

\* [binary] + sys.argv[1:]
Argv(b, args) == <<b>> \o args

\* The platform check of main and _run.
Strategy(p) == IF p = "win32" THEN "spawn" ELSE "exec"

ExitStatusTruthy(rc) == IF rc = 0 THEN 0 ELSE 1
\* sys.exit(subprocess.call(...))
ExitStatus(rc) == rc

\* Whether the OS can start the file: never a directory or an empty file.
StartOutcomes(kind) == IF kind = "file" THEN BOOLEAN ELSE {FALSE}

DelegationFallback(p, ok) ==
    IF Strategy(p) = "spawn"
    THEN [exec |-> 0, spawn |-> 1, pc |-> IF ok THEN "waiting" ELSE "exited"]
    ELSE IF ok THEN [exec |-> 1, spawn |-> 0, pc |-> "replaced"]
         ELSE [exec |-> 1, spawn |-> 1, pc |-> "waiting"]

\* The if/else of main and _run: one call, subprocess.call on win32 and
\* os.execvp otherwise; an OSError from either is not caught.
Delegation(p, ok) ==
    IF Strategy(p) = "spawn"
    THEN [exec |-> 0, spawn |-> 1, pc |-> IF ok THEN "waiting" ELSE "exited"]
    ELSE [exec |-> 1, spawn |-> 0, pc |-> IF ok THEN "replaced" ELSE "exited"]

---------------------------------------------------------------------------
\* Initial states

PermSamples == {\o644, \o755, \o055, \o6640}

TypeBits(kind) == IF kind = "dir" THEN S_IFDIR ELSE S_IFREG

AnyExecute(mode) == BitAnd(mode, S_IXUSR + S_IXGRP + S_IXOTH) # 0

BundledFiles ==
    {[kind |-> k, mode |-> 0] : k \in {"absent", "broken_symlink"}}
    \cup {[kind |-> k, mode |-> TypeBits(k) + m] :
            k \in {"file", "empty", "dir"}, m \in PermSamples}

\* shutil.which only yields files the process may execute (on win32 every
\* file with a PATHEXT suffix passes).
PathFiles(p, w) ==
    IF w = None THEN {[kind |-> "absent", mode |-> 0]}
    ELSE {[kind |-> k, mode |-> S_IFREG + m] :
            k \in {"file", "empty"},
            m \in {x \in PermSamples : p = "win32" \/ AnyExecute(x)}}

Fresh ==
    /\ selected = "none"
    /\ binary = None
    /\ err = "none"
    /\ stderr = <<>>
    /\ exitCode = <<>>
    /\ targetArgv = <<>>
    /\ childCode = <<>>
    /\ execCalls = 0
    /\ spawnCalls = 0
    /\ whichCalls = 0
    /\ hist = <<>>

Init ==
    /\ platform \in Platforms
    /\ entry \in Entries
    /\ argv1 \in SeqsUpTo(ArgValues, MaxArgs)
    /\ found \in {None} \cup WhichResults(platform)
    /\ \E b \in BundledFiles, f \in PathFiles(platform, found) :
          fs = [l \in Locs |-> IF l = "bundled" THEN b ELSE f]
    /\ pc = "start"
    /\ Fresh

---------------------------------------------------------------------------
\* Actions

\* An exception that nothing catches: the interpreter prints the traceback
\* and exits with status 1. sys.exit(1) after the printed message likewise.
Die(kind, msg) ==
    /\ pc' = "exited"
    /\ err' = kind
    /\ stderr' = msg
    /\ exitCode' = <<1>>

\* main(), line 53: binary = str(get_binary_path())
Main_Resolve ==
    /\ pc = "start"
    /\ entry = "main"
    /\ \E statOk \in BOOLEAN, chmodOk \in BOOLEAN :
          LET r == GetBinaryPath(platform, fs, found, statOk, chmodOk) IN
          /\ selected' = r.loc
          /\ whichCalls' = whichCalls + r.which
          /\ hist' = hist \o r.ens
          /\ fs' = IF r.ens = <<>> THEN fs
                   ELSE [fs EXCEPT ![r.loc].mode = r.ens[1].after]
          /\ IF r.status = "ok"
             THEN /\ pc' = "resolved"
                  /\ binary' = r.path
                  /\ UNCHANGED <<err, stderr, exitCode>>
             ELSE /\ binary' = binary
                  /\ IF r.status = "FileNotFoundError"
                     THEN Die("FileNotFoundError", FileNotFoundMessage(platform))
                     ELSE Die("EnsureOSError", <<"OSError">>)
    /\ UNCHANGED <<platform, entry, argv1, found, targetArgv, childCode,
                   execCalls, spawnCalls>>

\* _run(), lines 10-15
Run_Which ==
    /\ pc = "start"
    /\ entry = "__main__"
    /\ whichCalls' = whichCalls + 1
    /\ IF found = None
       THEN /\ Die("NotOnPath", RunNotFoundMessage(platform))
            /\ UNCHANGED <<selected, binary>>
       ELSE /\ pc' = "resolved"
            /\ selected' = "path"
            /\ binary' = found
            /\ UNCHANGED <<err, stderr, exitCode>>
    /\ UNCHANGED <<platform, entry, argv1, fs, found, targetArgv, childCode,
                   execCalls, spawnCalls, hist>>

Delegate ==
    /\ pc = "resolved"
    /\ \E ok \in StartOutcomes(fs[selected].kind) :
          LET d == Delegation(platform, ok) IN
          /\ targetArgv' = Argv(binary, argv1)
          /\ execCalls' = execCalls + d.exec
          /\ spawnCalls' = spawnCalls + d.spawn
          /\ IF d.pc = "exited"
             THEN Die("DelegateOSError", <<"OSError">>)
             ELSE /\ pc' = d.pc
                  /\ UNCHANGED <<err, stderr, exitCode>>
    /\ UNCHANGED <<platform, entry, argv1, fs, found, selected, binary,
                   childCode, whichCalls, hist>>

\* main(), lines 55-60
Main_Delegate == entry = "main" /\ Delegate

\* _run(), lines 16-19
Run_Delegate == entry = "__main__" /\ Delegate

\* The spawned child finishes; subprocess.call returns its exit code.
ChildExits ==
    /\ pc = "waiting"
    /\ \E n \in ExitCodes : childCode' = <<n>>
    /\ pc' = "child_done"
    /\ UNCHANGED <<platform, entry, argv1, fs, found, selected, binary, err,
                   stderr, exitCode, targetArgv, execCalls, spawnCalls,
                   whichCalls, hist>>

SysExit ==
    /\ pc = "child_done"
    /\ exitCode' = <<ExitStatus(childCode[1])>>
    /\ pc' = "exited"
    /\ UNCHANGED <<platform, entry, argv1, fs, found, selected, binary, err,
                   stderr, targetArgv, childCode, execCalls, spawnCalls,
                   whichCalls, hist>>

\* main(), line 57
Main_SysExit == entry = "main" /\ SysExit

\* _run(), line 17
Run_SysExit == entry = "__main__" /\ SysExit

\* After os.execvp the process is the target; its exit code is the target's.
TargetExits ==
    /\ pc = "replaced"
    /\ \E n \in ExitCodes : exitCode' = <<n>>
    /\ pc' = "exited"
    /\ UNCHANGED <<platform, entry, argv1, fs, found, selected, binary, err,
                   stderr, targetArgv, childCode, execCalls, spawnCalls,
                   whichCalls, hist>>

Next ==
    \/ Main_Resolve
    \/ Run_Which
    \/ Main_Delegate
    \/ Run_Delegate
    \/ ChildExits
    \/ Main_SysExit
    \/ Run_SysExit
    \/ TargetExits

Spec == Init /\ [][Next]_vars

---------------------------------------------------------------------------
\* The permission normalizer on its own: _ensure_executable applied
\* repeatedly to one file, over every permission-bit pattern.

AllModes == {t + m : t \in {S_IFREG, S_IFDIR}, m \in 0..PermMask}

InitNorm ==
    /\ platform \in Platforms
    /\ entry = "main"
    /\ argv1 = <<>>
    /\ found = None
    /\ \E m \in AllModes :
          fs = [l \in Locs |-> IF l = "bundled"
                               THEN [kind |-> IF m >= S_IFREG THEN "file" ELSE "dir",
                                     mode |-> m]
                               ELSE [kind |-> "absent", mode |-> 0]]
    /\ pc = "norm"
    /\ Fresh

\* _ensure_executable(bundled), lines 42-48
Norm_Apply ==
    /\ pc = "norm"
    /\ Len(hist) < MaxApplications
    /\ \E statOk \in BOOLEAN, chmodOk \in BOOLEAN :
          LET e == EnsureExecutable(platform, fs["bundled"].mode, statOk, chmodOk) IN
          /\ hist' = Append(hist, e)
          /\ fs' = [fs EXCEPT !["bundled"].mode = e.after]
    /\ UNCHANGED <<platform, entry, argv1, found, pc, selected, binary, err,
                   stderr, exitCode, targetArgv, childCode, execCalls,
                   spawnCalls, whichCalls>>

NextNorm == Norm_Apply

SpecNorm == InitNorm /\ [][NextNorm]_vars

---------------------------------------------------------------------------
\* Properties

Bundled == fs["bundled"]
Delegations == execCalls + spawnCalls
Contains(msg, name) == \E i \in DOMAIN msg : msg[i] = name

\* C1: once get_binary_path has returned, its result is the bundled path
\* whenever a file exists at the bundled location, and no search-path lookup
\* was made; the search-path result is returned only when no bundled file
\* exists.
C1_BundledWins ==
    (entry = "main" /\ pc # "start") =>
        /\ Bundled.kind \in {"file", "empty", "dir"} =>
              /\ selected = "bundled"
              /\ whichCalls = 0
              /\ binary \in {None, BundledPath(platform)}
              /\ pc = "resolved" => binary = BundledPath(platform)
        /\ (binary # None /\ binary # BundledPath(platform)) =>
              /\ Bundled.kind \in {"absent", "broken_symlink"}
              /\ found # None
              /\ binary = StrOfPath(found)

C1_Witness ==
    /\ entry = "main"
    /\ pc = "resolved"
    /\ Bundled.kind = "file"
    /\ found # None
    /\ binary = BundledPath(platform)

\* C2: when neither the bundled location nor the search path yields a file,
\* the run ends with a non-zero status and an error message that contains
\* the platform's executable name, and nothing is ever exec'ed or spawned.
C2_ResolutionFailure ==
    (pc # "start" /\ Bundled.kind \in {"absent", "broken_symlink"} /\ found = None) =>
        /\ pc = "exited"
        /\ err \in {"FileNotFoundError", "NotOnPath"}
        /\ Contains(stderr, IF platform = "win32" THEN "gather.exe" ELSE "gather")
        /\ exitCode # <<>> /\ exitCode # <<0>>
        /\ execCalls = 0 /\ spawnCalls = 0 /\ targetArgv = <<>>

C2_Witness ==
    /\ platform = "win32"
    /\ entry = "main"
    /\ Bundled.kind = "absent"
    /\ found = None
    /\ pc = "exited"
    /\ Contains(stderr, "gather.exe")

\* C3: on win32, once the target has been spawned the launcher has no exit
\* status before the child has one, and its exit status is then exactly the
\* child's exit code.
C3_ExitCodePropagated ==
    (platform = "win32" /\ targetArgv # <<>> /\ err = "none") =>
        /\ spawnCalls = 1 /\ execCalls = 0
        /\ exitCode # <<>> => (childCode # <<>> /\ exitCode = childCode)
        /\ pc = "exited" => exitCode # <<>>

C3_Witness ==
    /\ platform = "win32"
    /\ pc = "exited"
    /\ spawnCalls = 1
    /\ childCode = <<255>>
    /\ exitCode = <<255>>

\* C4: on both strategies the target's argv is the resolved path followed
\* by the launcher's arguments: same length, same order, element for element.
C4_ArgvForwarded ==
    (Delegations > 0) =>
        /\ Len(targetArgv) = Len(argv1) + 1
        /\ targetArgv[1] = binary
        /\ \A i \in 1..Len(argv1) : targetArgv[i + 1] = argv1[i]

C4_Witness ==
    /\ execCalls = 1
    /\ pc = "replaced"
    /\ Len(argv1) = 2
    /\ argv1[1] = "--help"
    /\ argv1[2] = "--help"
    /\ targetArgv = <<binary, "--help", "--help">>

\* C5: on a Unix-permission platform, a call of _ensure_executable that
\* returns, on a file whose owner-execute bit was unset, leaves the file's
\* mode equal to the initial mode with the three execute bits set and every
\* other bit as it was.
C5_ExactlyExecuteBitsAdded ==
    \A i \in DOMAIN hist :
        (platform # "win32" /\ ~hist[i].raised /\ Bit(hist[i].before, 6) = 0) =>
            /\ hist[i].chmod
            /\ \A b \in 0..15 :
                  Bit(hist[i].after, b) = IF b \in {0, 3, 6} THEN 1 ELSE Bit(hist[i].before, b)
            /\ hist[i].after < Pow2(16)
            /\ i = Len(hist) => Bundled.mode = hist[i].after

C5_Witness ==
    /\ platform = "linux"
    /\ Len(hist) = 1
    /\ ~hist[1].raised
    /\ hist[1].before = S_IFREG + \o7666
    /\ hist[1].after = S_IFREG + \o7777
    /\ Bundled.mode = S_IFREG + \o7777

\* C6: an application of _ensure_executable that follows one that returned
\* leaves the mode as it was and calls chmod not at all; and any application
\* to a file whose owner-execute bit is set calls chmod not at all, whatever
\* the group and other execute bits are.
C6_Idempotent ==
    /\ \A i \in DOMAIN hist :
          (i > 1 /\ ~hist[i - 1].raised) =>
              /\ ~hist[i].chmod
              /\ hist[i].after = hist[i - 1].after
    /\ \A i \in DOMAIN hist :
          Bit(hist[i].before, 6) = 1 =>
              /\ ~hist[i].chmod
              /\ hist[i].after = hist[i].before

C6_Witness ==
    /\ platform = "linux"
    /\ Len(hist) = 2
    /\ hist[1].before = S_IFREG + \o644
    /\ hist[1].chmod /\ ~hist[1].raised
    /\ ~hist[2].chmod /\ ~hist[2].raised
    /\ hist[2].after = S_IFREG + \o755

\* C7: what _run resolves is what get_binary_path resolves on the same
\* platform, filesystem and search path: the same file, or failure for both.
C7_SameResolution ==
    (entry = "__main__" /\ pc # "start") =>
        LET loc == Candidate(fs, found) IN
        /\ (binary # None) <=> (loc # "none")
        /\ binary # None => StrOfPath(binary) = CandidatePath(platform, loc, found)

\* C8: when the stat or chmod of _ensure_executable fails, the run is over
\* with a non-zero status and a message, nothing was or will be exec'ed or
\* spawned, and a failure on the bundled file led to no search-path lookup.
C8_PermissionFailureFatal ==
    (\E i \in DOMAIN hist : hist[i].raised) =>
        /\ pc = "exited"
        /\ exitCode # <<>> /\ exitCode # <<0>>
        /\ stderr # <<>>
        /\ binary = None
        /\ execCalls = 0 /\ spawnCalls = 0 /\ targetArgv = <<>>
        /\ selected = "bundled" => whichCalls = 0

C8_Witness ==
    /\ pc = "exited"
    /\ selected = "bundled"
    /\ found # None
    /\ Len(hist) = 1
    /\ hist[1].chmod /\ hist[1].raised

\* C9: at most one delegation call is made in a run, subprocess.call only
\* on win32 and os.execvp only elsewhere; a run that resolved a binary and
\* went on made exactly one; a failed call ends the run with a non-zero
\* status, with no second call of either kind.
C9_OneStrategy ==
    /\ Delegations <= 1
    /\ spawnCalls > 0 => platform = "win32"
    /\ execCalls > 0 => platform # "win32"
    /\ (binary # None /\ pc \notin {"start", "resolved"}) => Delegations = 1
    /\ err = "DelegateOSError" =>
          /\ pc = "exited"
          /\ exitCode # <<>> /\ exitCode # <<0>>
          /\ Delegations = 1
          /\ childCode = <<>>

C9_Witness ==
    /\ platform = "linux"
    /\ err = "DelegateOSError"
    /\ execCalls = 1
    /\ spawnCalls = 0
    /\ pc = "exited"

\* C10 as stated: a bundled path that is a directory, a broken symlink or a
\* zero-length file is selected by get_binary_path, no search-path lookup is
\* made, and it is what the Delegator is given.
C10_AsStated ==
    (entry = "main" /\ pc # "start"
        /\ Bundled.kind \in {"dir", "broken_symlink", "empty"}) =>
        /\ selected = "bundled"
        /\ whichCalls = 0
        /\ targetArgv # <<>> => targetArgv[1] = BundledPath(platform)

\* C10 amended: a bundled directory or zero-length file is selected, with no
\* search-path lookup, and is what the Delegator is given; a bundled broken
\* symlink is not selected: the search path is looked up and its result, if
\* any, is used.
C10_Amended ==
    (entry = "main" /\ pc # "start") =>
        /\ Bundled.kind \in {"dir", "empty"} =>
              /\ selected = "bundled"
              /\ whichCalls = 0
              /\ binary \in {None, BundledPath(platform)}
              /\ targetArgv # <<>> => targetArgv[1] = BundledPath(platform)
        /\ Bundled.kind = "broken_symlink" =>
              /\ selected # "bundled"
              /\ whichCalls = 1
              /\ found # None => selected = "path"
              /\ found = None => err = "FileNotFoundError"
              /\ targetArgv # <<>> => targetArgv[1] = StrOfPath(found)

C10_Witness ==
    /\ entry = "main"
    /\ Bundled.kind = "dir"
    /\ found # None
    /\ execCalls = 1
    /\ targetArgv[1] = BundledPath(platform)

=============================================================================
